---- MODULE Spec2Model ----
(***************************************************************************)
(* Model of ecsl::any_function (AnyFunction.hpp, src/unnamed/part_000):    *)
(* the type erased context (callable, argument slots, result slot,         *)
(* exception slot, reference counter), the four concurrency policies, the  *)
(* call protocol of core_manager, the wait/notify protocol of              *)
(* any_function::future and the reference counting of af_ctx_manager; and  *)
(* of mutex_protected_singleton (Compiler.h), storage (Storage.hpp) and    *)
(* reference_counter_pointer (ReferenceCounted.hpp).                       *)
(*                                                                         *)
(* The specifications of the module:                                       *)
(*   SpecCall / SpecCallFair  threads operating on the handles of one      *)
(*                            shared context (calls, waits, queries);      *)
(*   SpecTimed                wait_for / wait_until against calls;         *)
(*   SpecRef                  life cycle of handles and contexts           *)
(*                            (construction, copy, move, assignment, swap, *)
(*                            get_future, destruction);                    *)
(*   SpecSingleton            threads taking accessors of the singleton;   *)
(*   SpecStorage              construct / destroy / access of a storage;   *)
(*   SpecPointer              life cycle of counted pointers and objects.  *)
(***************************************************************************)
EXTENDS Integers, Sequences, FiniteSets, TLC

\* ------------------------------------------------------------------ bounds
NThreads == 2
MaxVal == 1
MaxInvocations == 2
NHandles == 3
NCtx == 2
MaxDestroyed == 2
MaxRuns == 3
NPointers == 3
NObjects == 2
MaxDeleted == 2

Threads == 1..NThreads
Vals == 1..MaxVal
Handles == 1..NHandles
Ctxs == 1..NCtx
Pointers == 1..NPointers
Objects == 1..NObjects

VARIABLES
    \* ---- the shared context of SpecCall (ctx_storage + policy context)
    policy,       \* concurrency tag the context was built with
    fsig,         \* Args... of the held callable (sequence of type names)
    args,         \* m_arguments: slot -> 0 (nullopt) or a value
    result,       \* m_result: 0 (nullopt) or a value
    exception,    \* m_exception: "none" (nullopt) or the stored exception
    spin,         \* spinlock_ctx::m_spinlock: 0 clear, else the owner
    mu,           \* waitable::m_mu of the context's wait source: 0 or owner
    \* ---- the threads of SpecCall
    pc,           \* position of each thread inside its current operation
    op,           \* operation each thread is executing
    given,        \* Args... of the operator()(Args&&...) a thread is in
    ret,          \* what the last finished operation returned / threw
    invocations,  \* number of times the held callable was invoked
    terminated,   \* std::terminate() was called
    expired,      \* thread -> the timeout of its wait_for / wait_until has passed
    \* ---- handles and contexts of SpecRef
    hlive,        \* handle -> is the handle object within its lifetime
    hctx,         \* handle -> m_context (0 is nullptr)
    cstate,       \* context -> "unalloc" | "live" | "freed"
    counter,      \* context -> ref_counted::m_counter
    rtype,        \* context -> Result type of the held callable
    destroyed,    \* context -> runs of destroy + deallocate
    uaf,          \* the manager was run on a released context
    lastFuture,   \* outcome of the future<T>(any_function) construction just made
    \* ---- mutex_protected_singleton<T, Mutex, Tag, policy> of SpecSingleton
    sgl_policy,   \* storage_policy of m_storage
    sgl_mu,       \* m_mu: 0 unlocked, else the owning thread
    sgl_pointer,  \* m_storage.m_pointer: 0 (nullptr) or the value of the object
    sgl_pc,       \* position of each thread inside its current operation
    sgl_acc,      \* thread -> the accessor_type it holds (reference, lock)
    \* ---- storage<T, policy> of SpecStorage
    sto_policy,   \* storage_policy::SAFE or SAFE_THROWING
    sto_state,    \* the storage object itself: "live" or "gone" (destructed)
    sto_pointer,  \* m_pointer: 0 (nullptr) or the value of the object it names
    sto_alive,    \* an object of type T is within its lifetime in m_storage
    sto_ctor,     \* completed constructor runs of T
    sto_dtor,     \* destructor runs of T
    sto_ret,      \* outcome of the last member function call
    \* ---- reference_counter_pointer / intrusive_reference_counter of SpecPointer
    rcp_live,     \* pointer -> is the pointer object within its lifetime
    rcp_object,   \* pointer -> m_object (0 is nullptr)
    irc_state,    \* object -> "unalloc" | "live" | "deleted"
    irc_counter,  \* object -> the counter in m_data
    irc_deleted,  \* object -> invocations of the deleter
    rcp_uaf       \* release / acquire was run on a deleted object

callVars == <<policy, fsig, args, result, exception, spin, mu,
              pc, op, given, ret, invocations, terminated, expired>>
refVars == <<hlive, hctx, cstate, counter, rtype, destroyed, uaf, lastFuture>>
sglVars == <<sgl_policy, sgl_mu, sgl_pointer, sgl_pc, sgl_acc>>
stoVars == <<sto_policy, sto_state, sto_pointer, sto_alive, sto_ctor, sto_dtor, sto_ret>>
rcpVars == <<rcp_live, rcp_object, irc_state, irc_counter, irc_deleted, rcp_uaf>>
libVars == <<sglVars, stoVars, rcpVars>>
vars == <<callVars, refVars, libVars>>

\* ------------------------------------------------------------ type erasure
Policies == {"unsafe", "shared", "spinlock", "waitable"}

\* af_ctx_manager::function_argument<T>: storage representation of an argument
function_argument(T) ==
    CASE T = "int&" -> "reference_storage<int&>"
      [] T = "const int&" -> "reference_storage<const int&>"
      [] T = "int&&" -> "int"
      [] T = "const int" -> "int"
      [] OTHER -> T

\* af_ctx_manager::function_result<T>: storage representation of the result
function_result(T) ==
    CASE T = "void" -> "as_void"
      [] T = "int&" -> "reference_storage<int&>"
      [] T = "const int&" -> "reference_storage<const int&>"
      [] T = "int&&" -> "int"
      [] T = "const int" -> "int"
      [] OTHER -> T

\* optional_tuple<function_argument<Args>...> of a type list
opt_args(sig) == [i \in 1..Len(sig) |-> function_argument(sig[i])]

\* signatures of the callables the contexts are built from
FnSigs == {<<"int&&", "long">>, <<"int&">>}
\* deduced Args... of operator()(Args&&...) calls
CallSigs == {<<"int", "long">>, <<"long", "int">>, <<"int">>, <<"int&">>}

\* longest argument list among the modelled signatures
MaxArity ==
    CHOOSE n \in {Len(sg) : sg \in FnSigs \cup CallSigs} :
        \A sg \in FnSigs \cup CallSigs : Len(sg) <= n

NoRet == [k |-> "none", val |-> 0, exc |-> "none"]
Ret(kind) == [k |-> kind, val |-> 0, exc |-> "none"]

\* ------------------------------------------------- context lock (per policy)
\* unsafe_ctx/shared_ctx::lock are empty, spinlock_ctx::lock spins on
\* m_spinlock, waitable_ctx::lock locks m_waitable.m_mu
CtxLockFree ==
    CASE policy = "spinlock" -> spin = 0
      [] policy = "waitable" -> mu = 0
      [] OTHER -> TRUE

HoldsCtxLock(t) ==
    CASE policy = "spinlock" -> spin = t
      [] policy = "waitable" -> mu = t
      [] OTHER -> FALSE

\* call_guard::call_guard: action_type::lock_call
lock_call(t) ==
    /\ CtxLockFree
    /\ spin' = IF policy = "spinlock" THEN t ELSE spin
    /\ mu' = IF policy = "waitable" THEN t ELSE mu

\* call_guard::~call_guard: action_type::unlock_call
unlock_call(t) ==
    /\ spin' = IF policy = "spinlock" THEN 0 ELSE spin
    /\ mu' = IF policy = "waitable" THEN 0 ELSE mu

\* waitable_source<Context>::lock_waitable: the generic source (shared and
\* spinlock contexts) locks the mutex of its waitable, the unsafe and the
\* waitable specialisations do nothing
LocksWaitable == policy \in {"shared", "spinlock"}

\* waitable_source<Context>::notify: notify_all except for unsafe contexts
Notifies == policy # "unsafe"

\* ------------------------------------------------------ slots of the context
\* (variant) only the first slot is tested
has_values_first(a) == a[1] # 0

\* has_values(context.m_arguments)
has_values(a) == \A i \in DOMAIN a : a[i] # 0

\* (variant) the reentry test forgets the exception slot
NoCallReentry_resultOnly == result # 0

\* core_manager, action_type::call: "No call reentry"
NoCallReentry == result # 0 \/ exception # "none"

\* the predicate future::wait hands to the condition variable
WaitPredicate == result # 0 \/ exception # "none"

\* (variant) the test looks at the arguments alone
Prepared_argumentsOnly == has_values(args)

\* is_prepared / the test at the head of future::wait
Prepared == has_values(args) /\ ~(result # 0 \/ exception # "none")

\* (variant) only the number of arguments is compared
ArgumentsAccepted_arity(sig) == Len(sig) = Len(fsig)

\* core_manager, action_type::get_argument_storage: the provided type list is
\* accepted when its optional_tuple has the type_id of the context's
ArgumentsAccepted(sig) == opt_args(sig) = opt_args(fsig)

\* ------------------------------------------------------------ thread steps
Set(f, t, v) == [f EXCEPT ![t] = v]

\* external synchronisation of the unsafe and shared policies: the user lets
\* no two operations on the context overlap; a thread parked inside
\* future::wait is out of the user's hands
TimedWaitStates ==
    {"tw_lockmu", "tw_pred", "tw_blocked", "tw_woken", "tw_timedout", "tw_last", "tw_ret"}

OthersQuiet(t) ==
    \A u \in Threads \ {t} :
        pc[u] \in {"idle", "cv_blocked", "cv_woken", "cv_pred"} \cup TimedWaitStates

CanStart(t) ==
    /\ ~terminated
    /\ pc[t] = "idle"
    /\ policy \in {"spinlock", "waitable"} \/ OthersQuiet(t)

GuardedQueries == {"has_anything", "has_result", "has_exception", "is_prepared"}
UnguardedQueries == {"has_arguments", "has_argument", "rethrow"}

\* where an operation goes once its call_guard is constructed
AfterLock(o) ==
    CASE o = "call_args" -> "ca_args"
      [] o = "call_stored" -> "call_check"
      [] o \in {"wait", "get"} -> "w_check"
      [] o = "argument_cast" -> "ac_get"
      [] OTHER -> "q_read"

\* a thread enters an operation whose first statement constructs a
\* call_guard; the operation begins when the guard has the lock
StartGuarded(t, o, sig) ==
    /\ CanStart(t)
    /\ lock_call(t)
    /\ pc' = Set(pc, t, AfterLock(o))
    /\ op' = Set(op, t, o)
    /\ given' = Set(given, t, IF o = "call_args" THEN sig ELSE <<>>)
    /\ UNCHANGED <<policy, fsig, args, result, exception, ret,
                   invocations, terminated, expired, refVars, libVars>>

\* has_arguments, has_argument and rethrow take no call_guard
StartUnguarded(t, o) ==
    /\ CanStart(t)
    /\ o = "rethrow" => exception # "none"
    /\ pc' = Set(pc, t, "u_read")
    /\ op' = Set(op, t, o)
    /\ UNCHANGED <<policy, fsig, given, args, result, exception, spin, mu, ret,
                   invocations, terminated, expired, refVars, libVars>>

\* the operation returns to its caller: the thread is idle again
Finish(t) ==
    /\ pc' = Set(pc, t, "idle")
    /\ op' = Set(op, t, "none")
    /\ ret' = Set(ret, t, NoRet)

\* what operator() makes of the pointer action_type::call returned
call_result(ok) == IF ok THEN Ret("succeeded") ELSE Ret("exception")

\* return from action_type::call into the operation that issued it
CallReturn(t, ok) ==
    /\ pc' = Set(pc, t, "unlock")
    /\ ret' = IF op[t] \in {"call_args", "call_stored"}
              THEN Set(ret, t, call_result(ok))
              ELSE ret

\* operator()(Args&&...): get_argument_storage, then the tuple assignment
CallArgs(t, vals) ==
    /\ ~terminated
    /\ pc[t] = "ca_args"
    /\ given' = Set(given, t, <<>>)
    /\ IF ArgumentsAccepted(given[t])
       THEN /\ vals \in [1..Len(given[t]) -> Vals]
            /\ args' = vals
            /\ pc' = Set(pc, t, "call_check")
            /\ ret' = ret
       ELSE /\ args' = args
            /\ pc' = Set(pc, t, "unlock")
            /\ ret' = Set(ret, t, Ret("arguments_not_accepted"))
    /\ UNCHANGED <<policy, fsig, result, exception, spin, mu, op,
                   invocations, terminated, expired, refVars, libVars>>

\* action_type::call, first statement: the has_values test and
\* store_exception<missing_argument> (noexcept: a second exception terminates)
CallCheck(t) ==
    /\ ~terminated
    /\ pc[t] = "call_check"
    /\ IF has_values(args)
       THEN /\ pc' = Set(pc, t, "call_lockw")
            /\ UNCHANGED <<exception, ret, terminated>>
       ELSE IF exception # "none"
            THEN /\ terminated' = TRUE
                 /\ pc' = Set(pc, t, "terminate")
                 /\ UNCHANGED <<exception, ret>>
            ELSE /\ exception' = "missing_argument"
                 /\ CallReturn(t, FALSE)
                 /\ UNCHANGED terminated
    /\ UNCHANGED <<policy, fsig, given, args, result, spin, mu, op,
                   invocations, expired, refVars, libVars>>

\* notifier::notifier: wait_source::lock_waitable
CallLockWaitable(t) ==
    /\ ~terminated
    /\ pc[t] = "call_lockw"
    /\ IF LocksWaitable THEN mu = 0 /\ mu' = t ELSE mu' = mu
    /\ pc' = Set(pc, t, "call_body")
    /\ UNCHANGED <<policy, fsig, given, args, result, exception, spin, op, ret,
                   invocations, terminated, expired, refVars, libVars>>

\* the reentry test and the invocation of the held callable; the callable
\* returns a value or throws, the thrown exception goes to store_exception()
CallBody(t) ==
    /\ ~terminated
    /\ pc[t] = "call_body"
    /\ IF NoCallReentry
       THEN /\ pc' = Set(pc, t, "call_ok")
            /\ UNCHANGED <<result, exception, invocations, terminated>>
       ELSE /\ invocations' = IF invocations < MaxInvocations
                              THEN invocations + 1 ELSE invocations
            /\ \/ /\ \E v \in Vals : result' = v
                  /\ pc' = Set(pc, t, "call_ok")
                  /\ UNCHANGED <<exception, terminated>>
               \/ /\ IF exception # "none"
                     THEN /\ terminated' = TRUE
                          /\ pc' = Set(pc, t, "terminate")
                          /\ UNCHANGED exception
                     ELSE /\ exception' = "callable_exception"
                          /\ pc' = Set(pc, t, "call_thrown")
                          /\ UNCHANGED terminated
                  /\ UNCHANGED result
    /\ UNCHANGED <<policy, fsig, given, args, spin, mu, op, ret, expired, refVars, libVars>>

\* notifier::~notifier: unlock_waitable, then notify; every thread parked in
\* the condition variable is woken
CallNotify(t) ==
    /\ ~terminated
    /\ pc[t] \in {"call_ok", "call_thrown"}
    /\ mu' = IF LocksWaitable THEN 0 ELSE mu
    /\ LET woken == [u \in Threads |->
                        CASE Notifies /\ pc[u] = "cv_blocked" -> "cv_woken"
                          [] Notifies /\ pc[u] = "tw_blocked" -> "tw_woken"
                          [] OTHER -> pc[u]]
       IN /\ pc' = Set(woken, t, "unlock")
          /\ ret' = IF op[t] \in {"call_args", "call_stored"}
                    THEN Set(ret, t, call_result(pc[t] = "call_ok"))
                    ELSE ret
    /\ UNCHANGED <<policy, fsig, given, args, result, exception, spin, op,
                   invocations, terminated, expired, refVars, libVars>>

\* call_guard::~call_guard at the end of an operation; future::get goes on
\* to its own guard once its wait() has returned
Unlock(t) ==
    /\ ~terminated
    /\ pc[t] = "unlock"
    /\ unlock_call(t)
    /\ IF op[t] = "get"
       THEN pc' = Set(pc, t, "g_lock") /\ UNCHANGED <<op, ret>>
       ELSE Finish(t)
    /\ UNCHANGED <<policy, fsig, given, args, result, exception,
                   invocations, terminated, expired, refVars, libVars>>

\* future::wait, guarded block: a prepared call is executed by the waiter
WaitCheck(t) ==
    /\ ~terminated
    /\ pc[t] = "w_check"
    /\ pc' = Set(pc, t, IF Prepared THEN "call_check" ELSE "w_unlock")
    /\ UNCHANGED <<policy, fsig, given, args, result, exception, spin, mu, op, ret,
                   invocations, terminated, expired, refVars, libVars>>

\* future::wait: the guard of the first block is destroyed
WaitUnlock(t) ==
    /\ ~terminated
    /\ pc[t] = "w_unlock"
    /\ unlock_call(t)
    /\ pc' = Set(pc, t, "w_lockmu")
    /\ UNCHANGED <<policy, fsig, given, args, result, exception, op, ret,
                   invocations, terminated, expired, refVars, libVars>>

\* future::wait: std::unique_lock lk_(w_.m_mu), and the same acquisition
\* when a woken thread leaves condition_variable::wait
WaitLockMutex(t) ==
    /\ ~terminated
    /\ pc[t] \in {"w_lockmu", "cv_woken"}
    /\ mu = 0
    /\ mu' = t
    /\ pc' = Set(pc, t, "cv_pred")
    /\ UNCHANGED <<policy, fsig, given, args, result, exception, spin, op, ret,
                   invocations, terminated, expired, refVars, libVars>>

\* condition_variable::wait(lk_, pred): with the predicate true wait()
\* returns (lk_ is released), otherwise the thread releases the mutex and parks
WaitPred(t) ==
    /\ ~terminated
    /\ pc[t] = "cv_pred"
    /\ mu' = 0
    /\ IF WaitPredicate /\ op[t] # "get"
       THEN Finish(t)
       ELSE /\ pc' = Set(pc, t, IF WaitPredicate THEN "g_lock" ELSE "cv_blocked")
            /\ UNCHANGED <<op, ret>>
    /\ UNCHANGED <<policy, fsig, given, args, result, exception, spin,
                   invocations, terminated, expired, refVars, libVars>>

\* a condition variable may wake a parked thread without a notification
SpuriousWakeup(t) ==
    /\ ~terminated
    /\ pc[t] = "cv_blocked"
    /\ pc' = Set(pc, t, "cv_woken")
    /\ UNCHANGED <<policy, fsig, given, args, result, exception, spin, mu, op, ret,
                   invocations, terminated, expired, refVars, libVars>>

\* future::get after wait(): the second call_guard
GetLock(t) ==
    /\ ~terminated
    /\ pc[t] = "g_lock"
    /\ lock_call(t)
    /\ pc' = Set(pc, t, "g_read")
    /\ UNCHANGED <<policy, fsig, given, args, result, exception, op, ret,
                   invocations, terminated, expired, refVars, libVars>>

\* (variant) the result slot is looked at before the exception slot
GetOutcome_resultFirst ==
    IF result # 0
    THEN [k |-> "value", val |-> result, exc |-> "none"]
    ELSE [k |-> "throw", val |-> 0, exc |-> exception]

\* future::get: rethrow the stored exception, else optional::value()
GetOutcome ==
    IF exception # "none"
    THEN [k |-> "throw", val |-> 0, exc |-> exception]
    ELSE IF result # 0
         THEN [k |-> "value", val |-> result, exc |-> "none"]
         ELSE [k |-> "throw", val |-> 0, exc |-> "bad_optional_access"]

GetRead(t) ==
    /\ ~terminated
    /\ pc[t] = "g_read"
    /\ ret' = Set(ret, t, GetOutcome)
    /\ pc' = Set(pc, t, "g_unlock")
    /\ UNCHANGED <<policy, fsig, given, args, result, exception, spin, mu, op,
                   invocations, terminated, expired, refVars, libVars>>

\* future::get: guard_ is destroyed on return and on unwinding
GetUnlock(t) ==
    /\ ~terminated
    /\ pc[t] = "g_unlock"
    /\ unlock_call(t)
    /\ Finish(t)
    /\ UNCHANGED <<policy, fsig, given, args, result, exception,
                   invocations, terminated, expired, refVars, libVars>>

Bool(b) == IF b THEN Ret("true") ELSE Ret("false")

\* has_anything, has_result, has_exception, is_prepared: read under the guard
QueryRead(t) ==
    /\ ~terminated
    /\ pc[t] = "q_read"
    /\ ret' = Set(ret, t,
                CASE op[t] = "has_anything" -> Bool(result # 0 \/ exception # "none")
                  [] op[t] = "has_result" -> Bool(result # 0)
                  [] op[t] = "has_exception" -> Bool(exception # "none")
                  [] OTHER -> Bool(Prepared))
    /\ pc' = Set(pc, t, "unlock")
    /\ UNCHANGED <<policy, fsig, given, args, result, exception, spin, mu, op,
                   invocations, terminated, expired, refVars, libVars>>

\* has_arguments, has_argument(n), rethrow: the slots are read with no
\* guard and the value goes straight back to the caller
UnguardedRead(t) ==
    /\ ~terminated
    /\ pc[t] = "u_read"
    /\ Finish(t)
    /\ UNCHANGED <<policy, fsig, given, args, result, exception, spin, mu,
                   invocations, terminated, expired, refVars, libVars>>

\* argument_cast<T>(af, n): the address of the n'th slot is taken under the
\* guard, the guard is destroyed and the reference is returned
ArgumentCast(t) ==
    /\ ~terminated
    /\ pc[t] = "ac_get"
    /\ unlock_call(t)
    /\ pc' = Set(pc, t, "ac_write")
    /\ UNCHANGED <<policy, fsig, given, args, result, exception, op, ret,
                   invocations, terminated, expired, refVars, libVars>>

\* the caller assigns (or resets) the optional argument_cast returned
ArgumentWrite(t, n, v) ==
    /\ ~terminated
    /\ pc[t] = "ac_write"
    /\ n \in DOMAIN args
    /\ args' = [args EXCEPT ![n] = v]
    /\ Finish(t)
    /\ UNCHANGED <<policy, fsig, given, result, exception, spin, mu,
                   invocations, terminated, expired, refVars, libVars>>

\* ------------------------------------------- future::wait_for / wait_until
TimedWaits == {"wait_for", "wait_until"}

\* wait_for / wait_until: no call_guard; get_waitable, then the unique_lock
StartTimed(t, o) ==
    /\ CanStart(t)
    /\ pc' = Set(pc, t, "tw_lockmu")
    /\ op' = Set(op, t, o)
    /\ UNCHANGED <<policy, fsig, given, args, result, exception, spin, mu, ret,
                   invocations, terminated, expired, refVars, libVars>>

\* the clock passes the time point (now + timeout_duration for wait_for);
\* a zero or negative timeout has passed before the thread does anything
Expire(t) ==
    /\ ~terminated
    /\ op[t] \in TimedWaits
    /\ pc[t] # "tw_ret"
    /\ ~expired[t]
    /\ expired' = Set(expired, t, TRUE)
    /\ UNCHANGED <<policy, fsig, given, args, result, exception, spin, mu, pc, op,
                   ret, invocations, terminated, refVars, libVars>>

\* std::unique_lock lk_(w_.m_mu), and the acquisition of the mutex by a
\* thread that leaves the wait of the condition variable
TimedLockMutex(t) ==
    /\ ~terminated
    /\ pc[t] \in {"tw_lockmu", "tw_woken", "tw_timedout"}
    /\ mu = 0
    /\ mu' = t
    /\ pc' = Set(pc, t, IF pc[t] = "tw_timedout" THEN "tw_last" ELSE "tw_pred")
    /\ UNCHANGED <<policy, fsig, given, args, result, exception, spin, op, ret,
                   invocations, terminated, expired, refVars, libVars>>

\* what wait_for / wait_until make of the bool the condition variable returns
future_status(b) == IF b THEN Ret("ready") ELSE Ret("timeout")

\* (variant) a timed out wait reports false without a last look
LastPredicate_none == FALSE

\* condition_variable::wait_until(lk, time, pred): when the wait timed out
\* the predicate is evaluated once more and is the value returned
LastPredicate == WaitPredicate

\* condition_variable::wait_until(lk, time, pred), loop head: with the
\* predicate true it returns true, else the mutex is released and the
\* thread parks until notified or until the time point
TimedPred(t) ==
    /\ ~terminated
    /\ pc[t] = "tw_pred"
    /\ IF WaitPredicate
       THEN /\ ret' = Set(ret, t, future_status(TRUE))
            /\ pc' = Set(pc, t, "tw_ret")
            /\ mu' = mu
       ELSE /\ pc' = Set(pc, t, "tw_blocked")
            /\ mu' = 0
            /\ ret' = ret
    /\ UNCHANGED <<policy, fsig, given, args, result, exception, spin, op,
                   invocations, terminated, expired, refVars, libVars>>

\* the parked thread wakes without a notification
TimedSpuriousWakeup(t) ==
    /\ ~terminated
    /\ pc[t] = "tw_blocked"
    /\ pc' = Set(pc, t, "tw_woken")
    /\ UNCHANGED <<policy, fsig, given, args, result, exception, spin, mu, op, ret,
                   invocations, terminated, expired, refVars, libVars>>

\* the wait of a parked or freshly woken thread ends with cv_status::timeout
\* once the time point has passed
TimedOut(t) ==
    /\ ~terminated
    /\ pc[t] \in {"tw_blocked", "tw_woken"}
    /\ expired[t]
    /\ pc' = Set(pc, t, "tw_timedout")
    /\ UNCHANGED <<policy, fsig, given, args, result, exception, spin, mu, op, ret,
                   invocations, terminated, expired, refVars, libVars>>

\* after cv_status::timeout: return pred()
TimedLast(t) ==
    /\ ~terminated
    /\ pc[t] = "tw_last"
    /\ ret' = Set(ret, t, future_status(LastPredicate))
    /\ pc' = Set(pc, t, "tw_ret")
    /\ UNCHANGED <<policy, fsig, given, args, result, exception, spin, mu, op,
                   invocations, terminated, expired, refVars, libVars>>

\* lk_ is destroyed and the status goes back to the caller
TimedReturn(t) ==
    /\ ~terminated
    /\ pc[t] = "tw_ret"
    /\ mu' = 0
    /\ expired' = Set(expired, t, FALSE)
    /\ Finish(t)
    /\ UNCHANGED <<policy, fsig, given, args, result, exception, spin,
                   invocations, terminated, refVars, libVars>>

\* ----------------------------------------------------------- SpecRef idle
NoFuture == [made |-> FALSE, ctx |-> 0, T |-> "void", threw |-> FALSE, fut |-> 0]

RefIdle ==
    /\ hlive = [h \in Handles |-> FALSE]
    /\ hctx = [h \in Handles |-> 0]
    /\ cstate = [c \in Ctxs |-> "unalloc"]
    /\ counter = [c \in Ctxs |-> 0]
    /\ rtype = [c \in Ctxs |-> "void"]
    /\ destroyed = [c \in Ctxs |-> 0]
    /\ uaf = FALSE
    /\ lastFuture = NoFuture

\* ----------------------------------------------- the other classes, idle
NoAccessor == [held |-> FALSE, owns |-> FALSE, obj |-> 0]

SglIdle ==
    /\ sgl_policy = "SAFE"
    /\ sgl_mu = 0
    /\ sgl_pointer = 0
    /\ sgl_pc = [t \in Threads |-> "idle"]
    /\ sgl_acc = [t \in Threads |-> NoAccessor]

NoOutcome == [op |-> "none", k |-> "none", val |-> 0]

StoIdle ==
    /\ sto_policy = "SAFE"
    /\ sto_state = "live"
    /\ sto_pointer = 0
    /\ sto_alive = FALSE
    /\ sto_ctor = 0
    /\ sto_dtor = 0
    /\ sto_ret = NoOutcome

RcpIdle ==
    /\ rcp_live = [p \in Pointers |-> FALSE]
    /\ rcp_object = [p \in Pointers |-> 0]
    /\ irc_state = [o \in Objects |-> "unalloc"]
    /\ irc_counter = [o \in Objects |-> 0]
    /\ irc_deleted = [o \in Objects |-> 0]
    /\ rcp_uaf = FALSE

LibIdle == SglIdle /\ StoIdle /\ RcpIdle

\* ------------------------------------------------------------- SpecCall
\* any_function(Tag, f, al): a fresh context, no argument, result or exception
InitCall ==
    /\ policy \in Policies
    /\ fsig \in FnSigs
    /\ args = [i \in 1..Len(fsig) |-> 0]
    /\ result = 0
    /\ exception = "none"
    /\ spin = 0
    /\ mu = 0
    /\ pc = [t \in Threads |-> "idle"]
    /\ op = [t \in Threads |-> "none"]
    /\ given = [t \in Threads |-> <<>>]
    /\ ret = [t \in Threads |-> NoRet]
    /\ invocations = 0
    /\ terminated = FALSE
    /\ expired = [t \in Threads |-> FALSE]
    /\ RefIdle
    /\ LibIdle

ThreadStep(t) ==
    \/ \E vals \in UNION {[1..n -> Vals] : n \in 1..MaxArity} : CallArgs(t, vals)
    \/ CallCheck(t)
    \/ CallLockWaitable(t)
    \/ CallBody(t)
    \/ CallNotify(t)
    \/ Unlock(t)
    \/ WaitCheck(t)
    \/ WaitUnlock(t)
    \/ WaitLockMutex(t)
    \/ WaitPred(t)
    \/ GetLock(t)
    \/ GetRead(t)
    \/ GetUnlock(t)
    \/ QueryRead(t)
    \/ UnguardedRead(t)
    \/ ArgumentCast(t)
    \/ \E n \in 1..MaxArity : \E v \in 0..MaxVal : ArgumentWrite(t, n, v)

ThreadStart(t) ==
    \/ \E sig \in CallSigs : StartGuarded(t, "call_args", sig)
    \/ \E o \in {"call_stored", "wait", "get", "argument_cast"}
                  \cup GuardedQueries : StartGuarded(t, o, <<>>)
    \/ \E o \in UnguardedQueries : StartUnguarded(t, o)

NextCall ==
    \E t \in Threads : ThreadStart(t) \/ ThreadStep(t) \/ SpuriousWakeup(t)

SpecCall == InitCall /\ [][NextCall]_vars

\* every thread that can take a step of the operation it is in eventually
\* takes it; a lock that keeps becoming free is eventually acquired.  No
\* fairness on starting operations or on spurious wake-ups.
SpecCallFair ==
    /\ SpecCall
    /\ \A t \in Threads : SF_vars(ThreadStep(t))

\* ------------------------------------------------------------- SpecTimed
\* timed waits of futures against calls through the any_function handles of
\* the same context
TimedStep(t) ==
    \/ TimedLockMutex(t)
    \/ TimedPred(t)
    \/ TimedSpuriousWakeup(t)
    \/ TimedOut(t)
    \/ TimedLast(t)
    \/ TimedReturn(t)

CallStep(t) ==
    \/ \E vals \in UNION {[1..n -> Vals] : n \in 1..MaxArity} : CallArgs(t, vals)
    \/ CallCheck(t)
    \/ CallLockWaitable(t)
    \/ CallBody(t)
    \/ CallNotify(t)
    \/ Unlock(t)

TimedStart(t) ==
    \/ \E o \in TimedWaits : StartTimed(t, o)
    \/ \E sig \in CallSigs : StartGuarded(t, "call_args", sig)
    \/ StartGuarded(t, "call_stored", <<>>)

NextTimed ==
    \E t \in Threads : TimedStart(t) \/ TimedStep(t) \/ CallStep(t) \/ Expire(t)

SpecTimed == InitCall /\ [][NextTimed]_vars

\* ------------------------------------------------ SpecCall idle (SpecRef)
CallIdle ==
    /\ policy = "unsafe"
    /\ fsig = <<"int&">>
    /\ args = <<0>>
    /\ result = 0
    /\ exception = "none"
    /\ spin = 0
    /\ mu = 0
    /\ pc = [t \in Threads |-> "idle"]
    /\ op = [t \in Threads |-> "none"]
    /\ given = [t \in Threads |-> <<>>]
    /\ ret = [t \in Threads |-> NoRet]
    /\ invocations = 0
    /\ terminated = FALSE
    /\ expired = [t \in Threads |-> FALSE]

\* --------------------------------------------------------------- SpecRef
\* Handles are af_ctx_manager objects (any_function and future<T> add no
\* member); m_manager is fixed by the type of the context m_context names.
ResultTypes == {"int", "void"}
FutureTypes == {"int", "const int", "void", "long"}

RefState == [cs |-> cstate, cnt |-> counter, des |-> destroyed, uaf |-> uaf]

\* action_type::up_ref_counter -> ref_counted::acquire; on a released
\* context the increment lands in freed memory
up_ref_counter(R, c) ==
    IF R.cs[c] = "live"
    THEN {[R EXCEPT !.cnt[c] = @ + 1]}
    ELSE {[R EXCEPT !.uaf = TRUE]}

\* action_type::down_ref_counter -> ref_counted::release: the context is
\* destroyed and deallocated when the counter reaches zero; on a released
\* context the decrement reads freed memory and may release it again
down_ref_counter(R, c) ==
    IF R.cs[c] = "live"
    THEN {IF R.cnt[c] = 1
          THEN [R EXCEPT !.cnt[c] = 0, !.cs[c] = "freed", !.des[c] = @ + 1]
          ELSE [R EXCEPT !.cnt[c] = @ - 1]}
    ELSE {[R EXCEPT !.uaf = TRUE]}
         \cup (IF R.des[c] < MaxDestroyed
               THEN {[R EXCEPT !.uaf = TRUE, !.des[c] = @ + 1]}
               ELSE {})

\* af_ctx_manager(const af_ctx_manager&): up_ref_counter when other is non-empty
CopyOf(R, c) == IF c # 0 THEN up_ref_counter(R, c) ELSE {R}

\* ~af_ctx_manager(): down_ref_counter when the handle is non-empty
DropOf(R, c) == IF c # 0 THEN down_ref_counter(R, c) ELSE {R}

SetRef(R) ==
    /\ cstate' = R.cs
    /\ counter' = R.cnt
    /\ destroyed' = R.des
    /\ uaf' = R.uaf

\* any_function(Tag, f, al): alloc_context, counter 1
Construct(h, c, R) ==
    /\ ~hlive[h]
    /\ cstate[c] = "unalloc"
    /\ hlive' = Set(hlive, h, TRUE)
    /\ hctx' = Set(hctx, h, c)
    /\ cstate' = Set(cstate, c, "live")
    /\ counter' = Set(counter, c, 1)
    /\ rtype' = Set(rtype, c, R)
    /\ lastFuture' = NoFuture
    /\ UNCHANGED <<destroyed, uaf, callVars, libVars>>

\* any_function() / future(): the empty handle
DefaultConstruct(h) ==
    /\ ~hlive[h]
    /\ hlive' = Set(hlive, h, TRUE)
    /\ hctx' = Set(hctx, h, 0)
    /\ lastFuture' = NoFuture
    /\ UNCHANGED <<cstate, counter, rtype, destroyed, uaf, callVars, libVars>>

\* copy construction, any_function(const future<T>&) included
CopyConstruct(h, src) ==
    /\ ~hlive[h] /\ hlive[src]
    /\ \E R1 \in CopyOf(RefState, hctx[src]) : SetRef(R1)
    /\ hlive' = Set(hlive, h, TRUE)
    /\ hctx' = Set(hctx, h, hctx[src])
    /\ lastFuture' = NoFuture
    /\ UNCHANGED <<rtype, callVars, libVars>>

\* af_ctx_manager(af_ctx_manager&&): an empty handle swapped with other
MoveConstruct(h, src) ==
    /\ ~hlive[h] /\ hlive[src]
    /\ hlive' = Set(hlive, h, TRUE)
    /\ hctx' = [hctx EXCEPT ![h] = hctx[src], ![src] = 0]
    /\ lastFuture' = NoFuture
    /\ UNCHANGED <<cstate, counter, rtype, destroyed, uaf, callVars, libVars>>

\* af_ctx_manager::operator=(const af_ctx_manager&): down_ref_counter on the
\* own context, then *this = af_ctx_manager(other): the temporary copies
\* other, the move assignment swaps it with *this (whose m_context still
\* names the old context) and the temporary's destructor drops what it got
CopyAssign(h, src) ==
    /\ hlive[h] /\ hlive[src]
    /\ IF h = src
       THEN UNCHANGED <<hctx, cstate, counter, destroyed, uaf>>
       ELSE /\ \E R1 \in DropOf(RefState, hctx[h]) :
               \E R2 \in CopyOf(R1, hctx[src]) :
               \E R3 \in DropOf(R2, hctx[h]) : SetRef(R3)
            /\ hctx' = Set(hctx, h, hctx[src])
    /\ lastFuture' = NoFuture
    /\ UNCHANGED <<hlive, rtype, callVars, libVars>>

\* af_ctx_manager::operator=(af_ctx_manager&&): swap unless self
MoveAssign(h, src) ==
    /\ hlive[h] /\ hlive[src]
    /\ hctx' = [hctx EXCEPT ![h] = hctx[src], ![src] = hctx[h]]
    /\ lastFuture' = NoFuture
    /\ UNCHANGED <<hlive, cstate, counter, rtype, destroyed, uaf, callVars, libVars>>

\* af_ctx_manager::swap / any_function::swap
Swap(h, g) ==
    /\ hlive[h] /\ hlive[g]
    /\ hctx' = [hctx EXCEPT ![h] = hctx[g], ![g] = hctx[h]]
    /\ lastFuture' = NoFuture
    /\ UNCHANGED <<hlive, cstate, counter, rtype, destroyed, uaf, callVars, libVars>>

\* (variant) the result type itself is compared
is_result_of_type_exact(c, T) == rtype[c] = T

\* any_function::is_result_of_type<T>: action_type::check_result_type with
\* type_id<function_result<T>>()
is_result_of_type(c, T) == function_result(rtype[c]) = function_result(T)

\* future<T>::future(const any_function&) and get_future<T>(): the base is
\* copy constructed, then bad_type_cast is thrown for a non-empty source of
\* another result type, which destroys the base again
GetFuture(h, af, T) ==
    /\ ~hlive[h] /\ hlive[af]
    /\ LET c == hctx[af]
           throws == c # 0 /\ ~is_result_of_type(c, T)
       IN /\ \E R1 \in CopyOf(RefState, c) :
               IF throws
               THEN \E R2 \in DropOf(R1, c) : SetRef(R2)
               ELSE SetRef(R1)
          /\ hlive' = Set(hlive, h, ~throws)
          /\ hctx' = Set(hctx, h, IF throws THEN 0 ELSE c)
          /\ lastFuture' = [made |-> TRUE, ctx |-> c, T |-> T, threw |-> throws,
                            fut |-> IF throws THEN 0 ELSE h]
    /\ UNCHANGED <<rtype, callVars, libVars>>

\* ~any_function() / ~future()
Destroy(h) ==
    /\ hlive[h]
    /\ \E R1 \in DropOf(RefState, hctx[h]) : SetRef(R1)
    /\ hlive' = Set(hlive, h, FALSE)
    /\ hctx' = Set(hctx, h, 0)
    /\ lastFuture' = NoFuture
    /\ UNCHANGED <<rtype, callVars, libVars>>

InitRef == CallIdle /\ RefIdle /\ LibIdle

NextRef ==
    \/ \E h \in Handles, c \in Ctxs, R \in ResultTypes : Construct(h, c, R)
    \/ \E h \in Handles : DefaultConstruct(h)
    \/ \E h, src \in Handles : CopyConstruct(h, src)
    \/ \E h, src \in Handles : MoveConstruct(h, src)
    \/ \E h, src \in Handles : CopyAssign(h, src)
    \/ \E h, src \in Handles : MoveAssign(h, src)
    \/ \E h, g \in Handles : Swap(h, g)
    \/ \E h, af \in Handles, T \in FutureTypes : GetFuture(h, af, T)
    \/ \E h \in Handles : Destroy(h)

SpecRef == InitRef /\ [][NextRef]_vars

\* --------------------------------------------------------- SpecSingleton
\* mutex_protected_singleton<T, Mutex, Tag, policy> (Compiler.h): the static
\* instance holds the mutex m_mu and the storage m_storage; accessor_type is
\* std::pair<reference, std::unique_lock<Mutex>>.
SglPolicies == {"SAFE", "SAFE_THROWING"}

\* instance() locks; instance(lp) hands lp to the unique_lock constructor
LockPolicies == {"lock", "try_to_lock", "defer_lock"}

\* lock_type(s.m_mu) / lock_type(s.m_mu, lp): does the lock own the mutex
owns_lock(lp) ==
    CASE lp = "lock" -> TRUE
      [] lp = "try_to_lock" -> sgl_mu = 0
      [] OTHER -> FALSE

\* instance() / instance(lp), first two statements: get_instance and the
\* construction of the lock; the blocking constructor waits for the mutex
InstanceLock(t, lp) ==
    /\ sgl_pc[t] = "idle"
    /\ lp = "lock" => sgl_mu = 0
    /\ sgl_mu' = IF owns_lock(lp) THEN t ELSE sgl_mu
    /\ sgl_acc' = Set(sgl_acc, t, [held |-> FALSE, owns |-> owns_lock(lp), obj |-> 0])
    /\ sgl_pc' = Set(sgl_pc, t, "get_reference")
    /\ UNCHANGED <<sgl_policy, sgl_pointer, callVars, refVars, stoVars, rcpVars>>

\* instance(), return statement: m_storage.get_reference() and the move of
\* the lock into the accessor; a lifetime_error unwinds through the lock
InstanceReturn(t) ==
    /\ sgl_pc[t] = "get_reference"
    /\ IF sgl_pointer = 0 /\ sgl_policy = "SAFE_THROWING"
       THEN /\ sgl_mu' = IF sgl_acc[t].owns THEN 0 ELSE sgl_mu
            /\ sgl_acc' = Set(sgl_acc, t, NoAccessor)
            /\ sgl_pc' = Set(sgl_pc, t, "idle")
       ELSE /\ sgl_acc' = Set(sgl_acc, t, [held |-> TRUE, owns |-> sgl_acc[t].owns,
                                           obj |-> sgl_pointer])
            /\ sgl_pc' = Set(sgl_pc, t, "hold")
            /\ sgl_mu' = sgl_mu
    /\ UNCHANGED <<sgl_policy, sgl_pointer, callVars, refVars, stoVars, rcpVars>>

\* initialize(args...), the lock
InitializeLock(t) ==
    /\ sgl_pc[t] = "idle"
    /\ sgl_mu = 0
    /\ sgl_mu' = t
    /\ sgl_pc' = Set(sgl_pc, t, "construct")
    /\ UNCHANGED <<sgl_policy, sgl_pointer, sgl_acc, callVars, refVars, stoVars, rcpVars>>

\* initialize(args...): m_storage.construct (an object is built only when
\* none is stored) and the accessor made of the object and the lock
InitializeConstruct(t, v) ==
    /\ sgl_pc[t] = "construct"
    /\ sgl_pointer' = IF sgl_pointer = 0 THEN v ELSE sgl_pointer
    /\ sgl_acc' = Set(sgl_acc, t, [held |-> TRUE, owns |-> TRUE, obj |-> sgl_pointer'])
    /\ sgl_pc' = Set(sgl_pc, t, "hold")
    /\ UNCHANGED <<sgl_policy, sgl_mu, callVars, refVars, stoVars, rcpVars>>

\* destroy(), the lock
DestroyLock(t) ==
    /\ sgl_pc[t] = "idle"
    /\ sgl_mu = 0
    /\ sgl_mu' = t
    /\ sgl_pc' = Set(sgl_pc, t, "destroy")
    /\ UNCHANGED <<sgl_policy, sgl_pointer, sgl_acc, callVars, refVars, stoVars, rcpVars>>

\* destroy(): m_storage.destroy() and the end of the lock
DestroyRun(t) ==
    /\ sgl_pc[t] = "destroy"
    /\ sgl_pointer' = 0
    /\ sgl_mu' = 0
    /\ sgl_pc' = Set(sgl_pc, t, "idle")
    /\ UNCHANGED <<sgl_policy, sgl_acc, callVars, refVars, stoVars, rcpVars>>

\* the holder of an accessor whose lock does not own the mutex locks it
\* (accessor.second.lock())
AccessorLock(t) ==
    /\ sgl_pc[t] = "hold"
    /\ ~sgl_acc[t].owns
    /\ sgl_mu = 0
    /\ sgl_mu' = t
    /\ sgl_acc' = Set(sgl_acc, t, [sgl_acc[t] EXCEPT !.owns = TRUE])
    /\ UNCHANGED <<sgl_policy, sgl_pointer, sgl_pc, callVars, refVars, stoVars, rcpVars>>

\* the accessor goes out of scope: ~unique_lock unlocks what it owns
AccessorRelease(t) ==
    /\ sgl_pc[t] = "hold"
    /\ sgl_mu' = IF sgl_acc[t].owns THEN 0 ELSE sgl_mu
    /\ sgl_acc' = Set(sgl_acc, t, NoAccessor)
    /\ sgl_pc' = Set(sgl_pc, t, "idle")
    /\ UNCHANGED <<sgl_policy, sgl_pointer, callVars, refVars, stoVars, rcpVars>>

InitSingleton ==
    /\ CallIdle
    /\ RefIdle
    /\ sgl_policy \in SglPolicies
    /\ sgl_mu = 0
    /\ sgl_pointer = 0
    /\ sgl_pc = [t \in Threads |-> "idle"]
    /\ sgl_acc = [t \in Threads |-> NoAccessor]
    /\ StoIdle
    /\ RcpIdle

NextSingleton ==
    \E t \in Threads :
        \/ \E lp \in LockPolicies : InstanceLock(t, lp)
        \/ InstanceReturn(t)
        \/ InitializeLock(t)
        \/ \E v \in Vals : InitializeConstruct(t, v)
        \/ DestroyLock(t)
        \/ DestroyRun(t)
        \/ AccessorLock(t)
        \/ AccessorRelease(t)

SpecSingleton == InitSingleton /\ [][NextSingleton]_vars

\* ----------------------------------------------------------- SpecStorage
\* storage<T, storage_policy::SAFE> and storage<T, SAFE_THROWING>
\* (Storage.hpp), used by one thread: construct, destroy, get_reference,
\* get_pointer and the destructor of the storage.  T's constructor and T's
\* destructor may throw (construct and destroy are conditionally noexcept).
StoPolicies == {"SAFE", "SAFE_THROWING"}

Outcome(o, kind, v) == [op |-> o, k |-> kind, val |-> v]

\* construct(args...): placement new only when m_pointer is null; a throwing
\* constructor leaves m_pointer null; the existing *m_pointer otherwise
StoConstruct(v, thrown) ==
    /\ sto_state = "live"
    /\ IF sto_pointer = 0
       THEN IF thrown
            THEN /\ sto_ret' = Outcome("construct", "throw_ctor", 0)
                 /\ UNCHANGED <<sto_pointer, sto_alive, sto_ctor>>
            ELSE /\ sto_ctor < MaxRuns
                 /\ sto_pointer' = v
                 /\ sto_alive' = TRUE
                 /\ sto_ctor' = sto_ctor + 1
                 /\ sto_ret' = Outcome("construct", "reference", v)
       ELSE /\ ~thrown
            /\ sto_ret' = Outcome("construct", "reference", sto_pointer)
            /\ UNCHANGED <<sto_pointer, sto_alive, sto_ctor>>
    /\ UNCHANGED <<sto_policy, sto_state, sto_dtor, callVars, refVars, sglVars, rcpVars>>

\* destroy(): m_pointer->~value_type(); m_pointer = nullptr; -- the
\* assignment is not reached when the destructor throws
destroy_pointer(thrown) == IF thrown THEN sto_pointer ELSE 0

\* the body of destroy(), also run by ~storage()
destroy(o, thrown) ==
    IF sto_pointer # 0
    THEN /\ sto_dtor < MaxRuns
         /\ sto_dtor' = sto_dtor + 1
         /\ sto_alive' = FALSE
         /\ sto_pointer' = destroy_pointer(thrown)
         /\ sto_ret' = Outcome(o, IF thrown THEN "throw_dtor" ELSE "void", 0)
    ELSE /\ ~thrown
         /\ sto_ret' = Outcome(o, "void", 0)
         /\ UNCHANGED <<sto_pointer, sto_alive, sto_dtor>>

StoDestroy(thrown) ==
    /\ sto_state = "live"
    /\ destroy("destroy", thrown)
    /\ UNCHANGED <<sto_policy, sto_state, sto_ctor, callVars, refVars, sglVars, rcpVars>>

\* get_reference(): SAFE dereferences m_pointer whatever it is (SIGSEGV on
\* nullptr); SAFE_THROWING throws lifetime_error on nullptr
StoGetReference ==
    /\ sto_state = "live"
    /\ sto_ret' = IF sto_pointer # 0
                  THEN Outcome("get_reference", "reference", sto_pointer)
                  ELSE IF sto_policy = "SAFE_THROWING"
                       THEN Outcome("get_reference", "lifetime_error", 0)
                       ELSE Outcome("get_reference", "null_dereference", 0)
    /\ UNCHANGED <<sto_policy, sto_state, sto_pointer, sto_alive, sto_ctor, sto_dtor,
                   callVars, refVars, sglVars, rcpVars>>

\* get_pointer(): m_pointer as it is
StoGetPointer ==
    /\ sto_state = "live"
    /\ sto_ret' = Outcome("get_pointer", "pointer", sto_pointer)
    /\ UNCHANGED <<sto_policy, sto_state, sto_pointer, sto_alive, sto_ctor, sto_dtor,
                   callVars, refVars, sglVars, rcpVars>>

\* ~storage(): destroy()
StoDestructor(thrown) ==
    /\ sto_state = "live"
    /\ destroy("~storage", thrown)
    /\ sto_state' = "gone"
    /\ UNCHANGED <<sto_policy, sto_ctor, callVars, refVars, sglVars, rcpVars>>

InitStorage ==
    /\ CallIdle
    /\ RefIdle
    /\ SglIdle
    /\ RcpIdle
    /\ sto_policy \in StoPolicies
    /\ sto_state = "live"
    /\ sto_pointer = 0
    /\ sto_alive = FALSE
    /\ sto_ctor = 0
    /\ sto_dtor = 0
    /\ sto_ret = NoOutcome

NextStorage ==
    \/ \E v \in Vals, thrown \in BOOLEAN : StoConstruct(v, thrown)
    \/ \E thrown \in BOOLEAN : StoDestroy(thrown)
    \/ StoGetReference
    \/ StoGetPointer
    \/ \E thrown \in BOOLEAN : StoDestructor(thrown)

SpecStorage == InitStorage /\ [][NextStorage]_vars

\* ----------------------------------------------------------- SpecPointer
\* reference_counter_pointer<T> over objects derived from
\* intrusive_reference_counter<T, Deleter> (ReferenceCounted.hpp), used by
\* one thread (the counter is not atomic).
IrcState == [st |-> irc_state, cnt |-> irc_counter, del |-> irc_deleted, uaf |-> rcp_uaf]

\* intrusive_reference_counter::acquire: ++counter; on a deleted object the
\* increment lands in freed memory
acquire(R, o) ==
    IF R.st[o] = "live"
    THEN {[R EXCEPT !.cnt[o] = @ + 1]}
    ELSE {[R EXCEPT !.uaf = TRUE]}

\* intrusive_reference_counter::release: the deleter is invoked when the
\* counter is zero or becomes zero; on a deleted object the counter is read
\* from freed memory and the deleter may be invoked again
release(R, o) ==
    IF R.st[o] = "live"
    THEN {IF R.cnt[o] <= 1
          THEN [R EXCEPT !.cnt[o] = 0, !.st[o] = "deleted", !.del[o] = @ + 1]
          ELSE [R EXCEPT !.cnt[o] = @ - 1]}
    ELSE {[R EXCEPT !.uaf = TRUE]}
         \cup (IF R.del[o] < MaxDeleted
               THEN {[R EXCEPT !.uaf = TRUE, !.del[o] = @ + 1]}
               ELSE {})

\* if (m_object) m_object->release();
ReleaseOf(R, o) == IF o # 0 THEN release(R, o) ELSE {R}

\* other ? other.m_object->acquire() : nothing
AcquireOf(R, o) == IF o # 0 THEN acquire(R, o) ELSE {R}

SetIrc(R) ==
    /\ irc_state' = R.st
    /\ irc_counter' = R.cnt
    /\ irc_deleted' = R.del
    /\ rcp_uaf' = R.uaf

\* reference_counter_pointer(pointer obj) on a fresh object (counter 0):
\* obj->acquire()
RcpNew(p, o) ==
    /\ ~rcp_live[p]
    /\ irc_state[o] = "unalloc"
    /\ rcp_live' = Set(rcp_live, p, TRUE)
    /\ rcp_object' = Set(rcp_object, p, o)
    /\ irc_state' = Set(irc_state, o, "live")
    /\ irc_counter' = Set(irc_counter, o, 1)
    /\ UNCHANGED <<irc_deleted, rcp_uaf, callVars, refVars, sglVars, stoVars>>

\* reference_counter_pointer() / reference_counter_pointer(nullptr)
RcpNull(p) ==
    /\ ~rcp_live[p]
    /\ rcp_live' = Set(rcp_live, p, TRUE)
    /\ rcp_object' = Set(rcp_object, p, 0)
    /\ UNCHANGED <<irc_state, irc_counter, irc_deleted, rcp_uaf,
                   callVars, refVars, sglVars, stoVars>>

\* reference_counter_pointer(const reference_counter_pointer&)
RcpCopyConstruct(p, src) ==
    /\ ~rcp_live[p] /\ rcp_live[src]
    /\ \E R1 \in AcquireOf(IrcState, rcp_object[src]) : SetIrc(R1)
    /\ rcp_live' = Set(rcp_live, p, TRUE)
    /\ rcp_object' = Set(rcp_object, p, rcp_object[src])
    /\ UNCHANGED <<callVars, refVars, sglVars, stoVars>>

\* reference_counter_pointer(reference_counter_pointer&&)
RcpMoveConstruct(p, src) ==
    /\ ~rcp_live[p] /\ rcp_live[src]
    /\ rcp_live' = Set(rcp_live, p, TRUE)
    /\ rcp_object' = [rcp_object EXCEPT ![p] = rcp_object[src], ![src] = 0]
    /\ UNCHANGED <<irc_state, irc_counter, irc_deleted, rcp_uaf,
                   callVars, refVars, sglVars, stoVars>>

\* operator=(const&): m_object is assigned only inside if (!!other)
copy_assigned(p, src) == IF rcp_object[src] # 0 THEN rcp_object[src] ELSE rcp_object[p]

\* operator=(const reference_counter_pointer&): release of the own object,
\* then acquire of other's; p = src is self assignment
RcpCopyAssign(p, src) ==
    /\ rcp_live[p] /\ rcp_live[src]
    /\ \E R1 \in ReleaseOf(IrcState, rcp_object[p]) :
         \E R2 \in AcquireOf(R1, rcp_object[src]) : SetIrc(R2)
    /\ rcp_object' = Set(rcp_object, p, copy_assigned(p, src))
    /\ UNCHANGED <<rcp_live, callVars, refVars, sglVars, stoVars>>

\* operator=(reference_counter_pointer&&): release of the own object,
\* m_object = other.m_object, other.m_object = nullptr
RcpMoveAssign(p, src) ==
    /\ rcp_live[p] /\ rcp_live[src]
    /\ \E R1 \in ReleaseOf(IrcState, rcp_object[p]) : SetIrc(R1)
    /\ rcp_object' = [Set(rcp_object, p, rcp_object[src]) EXCEPT ![src] = 0]
    /\ UNCHANGED <<rcp_live, callVars, refVars, sglVars, stoVars>>

\* swap(other)
RcpSwap(p, q) ==
    /\ rcp_live[p] /\ rcp_live[q]
    /\ rcp_object' = [rcp_object EXCEPT ![p] = rcp_object[q], ![q] = rcp_object[p]]
    /\ UNCHANGED <<rcp_live, irc_state, irc_counter, irc_deleted, rcp_uaf,
                   callVars, refVars, sglVars, stoVars>>

\* ~reference_counter_pointer()
RcpDestroy(p) ==
    /\ rcp_live[p]
    /\ \E R1 \in ReleaseOf(IrcState, rcp_object[p]) : SetIrc(R1)
    /\ rcp_live' = Set(rcp_live, p, FALSE)
    /\ rcp_object' = Set(rcp_object, p, 0)
    /\ UNCHANGED <<callVars, refVars, sglVars, stoVars>>

InitPointer == CallIdle /\ RefIdle /\ SglIdle /\ StoIdle /\ RcpIdle

NextPointer ==
    \/ \E p \in Pointers, o \in Objects : RcpNew(p, o)
    \/ \E p \in Pointers : RcpNull(p)
    \/ \E p, src \in Pointers : RcpCopyConstruct(p, src)
    \/ \E p, src \in Pointers : RcpMoveConstruct(p, src)
    \/ \E p, src \in Pointers : RcpCopyAssign(p, src)
    \/ \E p, src \in Pointers : RcpMoveAssign(p, src)
    \/ \E p, q \in Pointers : RcpSwap(p, q)
    \/ \E p \in Pointers : RcpDestroy(p)

SpecPointer == InitPointer /\ [][NextPointer]_vars

\* =================================================== claims under SpecCall
Done == result # 0 \/ exception # "none"
InCall(t) == op[t] \in {"call_args", "call_stored"}
Stepped(t) == pc'[t] # pc[t]

\* C1: the held callable is invoked at most once: it is invoked only from a
\* context that holds neither a result nor an exception and that was never
\* invoked before, whatever operator() or future::wait() issues the call,
\* under every policy and every interleaving the model admits.
C1_InvokedAtMostOnce ==
    [][invocations' # invocations
         => (result = 0 /\ exception = "none" /\ invocations = 0)]_vars

\* C1 witness: a call was issued on a context whose callable had already run
\* and had thrown; the reentry test sent it back without a second invocation.
C1_Witness ==
    \E t \in Threads :
        /\ pc[t] = "call_ok" /\ InCall(t)
        /\ invocations = 1 /\ exception = "callable_exception"

\* C4 (as claimed): under the spinlock and waitable policies no access to the
\* slots of the context overlaps an access another thread makes; stated here
\* for the overlaps in which one side may write.
SlotAccess(t) ==
    pc[t] \in {"ca_args", "call_check", "call_body", "w_check", "cv_pred",
               "g_read", "q_read", "u_read"}
SlotWrite(t) == pc[t] \in {"ca_args", "call_check", "call_body"}
C4_NoOverlappingAccess ==
    policy \in {"spinlock", "waitable"} =>
        \A t, u \in Threads : t # u => ~(SlotAccess(t) /\ SlotWrite(u))

\* C5 (as claimed): under the shared, spinlock and waitable policies a thread
\* parked inside future::wait() returns from it once the context holds a
\* result or an exception.
InWait(t) == pc[t] \in {"cv_blocked", "cv_woken", "cv_pred"}
C5_WaitersReleased ==
    \A t \in Threads :
        (policy # "unsafe" /\ pc[t] = "cv_blocked" /\ Done)
            ~> (~InWait(t) \/ terminated)

\* C6 (as claimed): operator() returns succeeded only with a result in the
\* context and exception only with an exception in the context.
C6_ReturnMatchesContext ==
    \A t \in Threads :
        (pc[t] = "unlock" /\ InCall(t)) =>
            /\ ret[t].k = "succeeded" => result # 0
            /\ ret[t].k = "exception" => exception # "none"

\* C7: operator()(args...) whose argument list has another storage
\* representation than the held function's returns arguments_not_accepted,
\* goes straight to the end of the operation (no invocation) and leaves the
\* arguments, the result and the exception as they were.
C7_ArgumentsNotAccepted ==
    [][\A t \in Threads :
         (pc[t] = "ca_args" /\ Stepped(t) /\ opt_args(given[t]) # opt_args(fsig))
           => /\ ret'[t].k = "arguments_not_accepted"
              /\ pc'[t] = "unlock"
              /\ UNCHANGED <<args, result, exception, invocations, terminated>>]_vars

\* C7 witness: a call with a rejected argument list is about to return, on a
\* context that has stored arguments.
C7_Witness ==
    \E t \in Threads :
        /\ pc[t] = "unlock" /\ op[t] = "call_args"
        /\ ret[t].k = "arguments_not_accepted"
        /\ \E i \in DOMAIN args : args[i] # 0

\* C8 (as claimed): operator()() with an uninitialized argument never
\* invokes, stores missing_argument and returns call_result::exception.
MissingArg == \E i \in DOMAIN args : args[i] = 0
C8_MissingArgument ==
    [][\A t \in Threads :
         (pc[t] = "call_check" /\ op[t] = "call_stored" /\ MissingArg /\ Stepped(t))
           => /\ exception' = "missing_argument"
              /\ ret'[t].k = "exception"
              /\ pc'[t] = "unlock"
              /\ invocations' = invocations]_vars

\* C8 (amended): operator()() with an uninitialized argument never invokes
\* the callable; on a context that holds no exception it stores
\* missing_argument and returns call_result::exception; on a context that
\* already holds an exception it stores nothing and std::terminate is called.
C8_MissingArgumentOrTerminate ==
    [][\A t \in Threads :
         (pc[t] = "call_check" /\ op[t] = "call_stored" /\ MissingArg /\ Stepped(t))
           => /\ invocations' = invocations
              /\ UNCHANGED <<args, result>>
              /\ IF exception = "none"
                 THEN /\ exception' = "missing_argument"
                      /\ ret'[t].k = "exception"
                      /\ pc'[t] = "unlock"
                      /\ ~terminated'
                 ELSE /\ terminated'
                      /\ pc'[t] = "terminate"
                      /\ UNCHANGED <<exception, ret>>]_vars

\* C8 witness: operator()() is returning call_result::exception with the
\* missing_argument it stored, the callable never having run.
C8_Witness ==
    \E t \in Threads :
        /\ pc[t] = "unlock" /\ op[t] = "call_stored"
        /\ ret[t].k = "exception" /\ exception = "missing_argument"
        /\ invocations = 0 /\ MissingArg

\* C9: future::get() reaches its outcome only on a completed call (the
\* context holds a result or an exception); with an exception in the context
\* it throws exactly that exception and returns no value, otherwise it
\* returns the stored result.
C9_GetOutcome ==
    [][\A t \in Threads :
         (pc[t] = "g_read" /\ Stepped(t))
           => /\ Done
              /\ pc'[t] = "g_unlock"
              /\ IF exception # "none"
                 THEN ret'[t] = [k |-> "throw", val |-> 0, exc |-> exception]
                 ELSE ret'[t] = [k |-> "value", val |-> result, exc |-> "none"]]_vars

\* C9 witness: get() rethrows the exception of a callable that ran and threw.
C9_Witness ==
    \E t \in Threads :
        /\ pc[t] = "g_unlock" /\ ret[t].k = "throw"
        /\ exception = "callable_exception" /\ invocations = 1

\* C11: future::wait() (also when future::get() runs it) that finds the
\* context prepared -- all arguments initialized, no result, no exception --
\* goes into the call action itself and never to the condition variable; the
\* call action that finds the arguments still present invokes the callable
\* (exactly here the invocation count goes up), otherwise it stores
\* missing_argument; when wait() returns the context holds a result or an
\* exception.
InWaitOp(t) == op[t] \in {"wait", "get"}
C11_WaitExecutesPreparedCall ==
    [][\A t \in Threads :
         (InWaitOp(t) /\ Stepped(t)) =>
            /\ (pc[t] = "w_check" /\ has_values(args)
                   /\ result = 0 /\ exception = "none")
                  => pc'[t] = "call_check"
            /\ pc[t] = "call_check"
                  => \/ pc'[t] = "call_lockw"
                     \/ pc'[t] = "unlock" /\ exception' = "missing_argument"
            /\ pc[t] = "call_lockw" => pc'[t] = "call_body"
            /\ pc[t] = "call_body"
                  => /\ invocations' = invocations + 1
                     /\ pc'[t] \in {"call_ok", "call_thrown"}
                     /\ result' # 0 \/ exception' # "none"
            /\ pc[t] \in {"call_ok", "call_thrown"} => pc'[t] = "unlock"
            /\ pc[t] = "unlock"
                  => /\ result' # 0 \/ exception' # "none"
                     /\ pc'[t] = IF op[t] = "get" THEN "g_lock" ELSE "idle"]_vars

\* C11 witness: wait() has executed the call of a prepared context and is
\* about to return; the callable ran once and its result is stored.
C11_Witness ==
    \E t \in Threads :
        /\ op[t] = "wait" /\ pc[t] = "unlock"
        /\ invocations = 1 /\ result # 0 /\ exception = "none"

\* =================================================== claims under SpecTimed
\* C12: future::wait_for and future::wait_until never invoke the callable
\* themselves; the status they produce is future_status::ready exactly when
\* the context holds a result or an exception at that moment (the mutex of
\* the wait source is held from there to the return) and
\* future_status::timeout otherwise, the latter only once the timeout has
\* passed.
InTimedWait(t) == op[t] \in {"wait_for", "wait_until"}
C12_TimedWaitStatus ==
    [][\A t \in Threads :
         (InTimedWait(t) /\ Stepped(t)) =>
            /\ invocations' = invocations
            /\ pc'[t] = "tw_ret" =>
                  /\ ret'[t].k \in {"ready", "timeout"}
                  /\ ret'[t].k = "ready" <=> (result # 0 \/ exception # "none")
                  /\ ret'[t].k = "timeout" => expired[t]
                  /\ mu' = t]_vars

\* C12 witness: a timed wait that parked and timed out reports ready, the
\* callable having stored its result in the meantime.
C12_Witness ==
    \E t \in Threads :
        /\ InTimedWait(t) /\ pc[t] = "tw_ret" /\ expired[t]
        /\ ret[t].k = "ready" /\ result # 0 /\ invocations = 1

\* C12 witness of the other status: the wait timed out on a context that
\* holds neither a result nor an exception.
C12_TimeoutReached ==
    \E t \in Threads :
        /\ InTimedWait(t) /\ pc[t] = "tw_ret" /\ ret[t].k = "timeout"
        /\ expired[t] /\ result = 0 /\ exception = "none"

\* =============================================== claims under SpecSingleton
\* C13 (as claimed): every accessor a thread holds owns the singleton's
\* mutex, so no two threads hold an accessor to the object at the same time.
C13_AccessorsExclusive ==
    /\ \A t \in Threads : sgl_acc[t].held => (sgl_acc[t].owns /\ sgl_mu = t)
    /\ \A t, u \in Threads :
          (sgl_acc[t].held /\ sgl_acc[u].held) => t = u

\* ================================================= claims under SpecStorage
\* C14 (as claimed): constructor and destructor runs of the stored type
\* alternate, starting with a constructor: a constructor runs only while no
\* object is alive, a destructor runs only on the object that is alive, and
\* no object is alive once the storage is destroyed.
C14_CtorDtorAlternate ==
    [][/\ sto_ctor' # sto_ctor => (~sto_alive /\ sto_ctor' = sto_ctor + 1)
       /\ sto_dtor' # sto_dtor => (sto_alive /\ sto_dtor' = sto_dtor + 1)
       /\ sto_state' = "gone" => (~sto_alive' /\ sto_ctor' = sto_dtor')]_vars

\* C15 (as claimed): with SAFE_THROWING, get_reference() throws
\* lifetime_error exactly when no object is within its lifetime and returns
\* the live object otherwise, and leaves the storage as it was.
C15_ThrowsOutsideLifetime ==
    [][(sto_policy = "SAFE_THROWING" /\ sto_ret'.op = "get_reference")
         => /\ sto_ret'.k = IF sto_alive THEN "reference" ELSE "lifetime_error"
            /\ UNCHANGED <<sto_pointer, sto_alive, sto_ctor, sto_dtor, sto_state>>]_vars

\* ================================================= claims under SpecPointer
RcpReferring(o) == {p \in Pointers : rcp_live[p] /\ rcp_object[p] = o}

\* C16 (as claimed): the deleter of an object is invoked exactly once, when
\* the last pointer referring to it goes away, and never while a live pointer
\* still refers to it: an object is alive exactly while some live pointer
\* refers to it, is deleted at most once, and no pointer operation touches a
\* deleted object.
C16_DeletedExactlyOnce ==
    /\ ~rcp_uaf
    /\ \A o \in Objects :
          /\ irc_deleted[o] <= 1
          /\ irc_state[o] = "deleted" => (irc_deleted[o] = 1 /\ RcpReferring(o) = {})
          /\ irc_state[o] = "live" => RcpReferring(o) # {}

\* ==================================================== claims under SpecRef
Referring(c) == {h \in Handles : hlive[h] /\ hctx[h] = c}

\* C2 (as claimed): the reference counter of every live context equals the
\* number of live handles that refer to it.
C2_CounterEqualsHandles ==
    \A c \in Ctxs : cstate[c] = "live" => counter[c] = Cardinality(Referring(c))

\* C3 (as claimed): a context is destroyed and deallocated exactly once, when
\* its last handle goes, and never while a live handle refers to it: a
\* released context was released once and has no live handle, a context with
\* no live handle is released, and no released context is ever used.
C3_ReleasedExactlyOnce ==
    /\ ~uaf
    /\ \A c \in Ctxs :
        /\ cstate[c] = "freed" => destroyed[c] = 1 /\ Referring(c) = {}
        /\ cstate[c] = "live" => destroyed[c] = 0 /\ Referring(c) # {}

====
